---- MODULE Spec2Model ----
(***************************************************************************)
(* The resilient call executor of GlacierDBDatabaseAdapter: withDatabase   *)
(* runs withRetry inside the circuit breaker inherited from the            *)
(* DatabaseAdapter base class.  withDatabase and withRetry are translated  *)
(* from the adapter source; the breaker itself (withCircuitBreaker of the  *)
(* base class) is not part of the source tree and is modelled from         *)
(* section 4.1 of the specification.                                       *)
(*                                                                         *)
(* Time is kept relative: a backoff timer holds the milliseconds that      *)
(* remain before it may fire, the breaker holds the milliseconds elapsed   *)
(* since it opened (saturating at resetTimeout).                           *)
(***************************************************************************)
EXTENDS Integers, Sequences, FiniteSets, TLC

\* ---------------------------------------------------------------- constants
maxRetries == 3
baseDelay == 1000
maxDelay == 10000
jitterMax == 1000
failureThreshold == 5
resetTimeout == 60000
halfOpenMaxAttempts == 3

\* ------------------------------------------------------------------- bounds
\* Number of logically concurrent call sites multiplexed on the event loop.
NumCallers == 2
\* Number of completed calls, counted from construction, that are logged.
MaxLog == 2

Callers == 1..NumCallers

\* Math.random() * jitterMax lies in [0, jitterMax): its least and its largest
\* integer value.
JitterChoices == {0, jitterMax - 1}

\* The clock advances by a short step (one base delay) or by a long step that
\* takes a breaker that just opened to one short step before its reset timeout.
ShortStep == baseDelay
LongStep == resetTimeout - baseDelay

VARIABLES
    cb,       \* the circuit breaker: state, failureCount, halfOpenSuccesses, openFor
    calls,    \* per call site: the withDatabase call it is running (or ran last)
    obs,      \* what a caller can observe of the sequence of completed calls
    sched     \* the catch block's locals: attempt, backoffDelay, jitter, delay

vars == <<cb, calls, obs, sched>>

Min(a, b) == IF a < b THEN a ELSE b
Max(a, b) == IF a > b THEN a ELSE b

RECURSIVE Pow2(_)
Pow2(n) == IF n <= 0 THEN 1 ELSE 2 * Pow2(n - 1)

\* ------------------------------------------------------------ values, errors
NoResult == [kind |-> "none", name |-> "", attempt |-> 0, totalAttempts |-> 0]

\* What attempt k of the operation returns when it succeeds.
OpValue(k) == [kind |-> "value", name |-> "result", attempt |-> k, totalAttempts |-> 0]

\* What attempt k of the operation throws: an Error object or some other value.
ThrownKinds == {"OperationError", "NonErrorValue"}
OpThrown(k, name) == [kind |-> "error", name |-> name, attempt |-> k, totalAttempts |-> 0]

CircuitOpenError ==
    [kind |-> "error", name |-> "CircuitOpenError", attempt |-> 0, totalAttempts |-> 0]

\* ------------------------------------------------- circuit breaker (spec 4.1)
InitBreaker ==
    [state |-> "CLOSED", failureCount |-> 0, halfOpenSuccesses |-> 0, openFor |-> 0]

\* OPEN and the reset timeout has not elapsed: calls are rejected.
OpenBeforeTimeout(b) == b.state = "OPEN" /\ b.openFor < resetTimeout

\* execute(), on entry: OPEN before the timeout rejects; OPEN at or after the
\* timeout becomes HALF_OPEN; CLOSED and HALF_OPEN pass.
CircuitBreakerRejects(b) == OpenBeforeTimeout(b)

CircuitBreakerEnter(b) ==
    IF b.state = "OPEN"
    THEN [b EXCEPT !.state = "HALF_OPEN", !.halfOpenSuccesses = 0, !.openFor = 0]
    ELSE b

\* execute(), when its operation has succeeded.
CircuitBreakerOnSuccess(b) ==
    CASE b.state = "CLOSED" -> [b EXCEPT !.failureCount = 0]
      [] b.state = "HALF_OPEN" ->
            IF b.halfOpenSuccesses + 1 >= halfOpenMaxAttempts
            THEN [b EXCEPT !.state = "CLOSED", !.failureCount = 0,
                           !.halfOpenSuccesses = 0]
            ELSE [b EXCEPT !.halfOpenSuccesses = @ + 1, !.failureCount = 0]
      [] OTHER -> [b EXCEPT !.failureCount = 0]

\* execute(), when its operation has failed.
CircuitBreakerOnFailure(b) ==
    CASE b.state = "CLOSED" ->
            IF b.failureCount + 1 >= failureThreshold
            THEN [b EXCEPT !.state = "OPEN", !.failureCount = @ + 1, !.openFor = 0]
            ELSE [b EXCEPT !.failureCount = @ + 1]
      [] b.state = "HALF_OPEN" ->
            [b EXCEPT !.state = "OPEN", !.halfOpenSuccesses = 0, !.openFor = 0]
      [] OTHER -> b

CircuitBreakerReport(b, point) ==
    IF point = "success" THEN CircuitBreakerOnSuccess(b) ELSE CircuitBreakerOnFailure(b)

RECURSIVE CircuitBreakerReportAll(_, _)
CircuitBreakerReportAll(b, points) ==
    IF points = <<>> THEN b
    ELSE CircuitBreakerReportAll(CircuitBreakerReport(b, Head(points)), Tail(points))

\* ------------------------------------------------------------- withDatabase
\* Faulty variant: withDatabase runs the retry loop without asking the breaker.
withDatabaseRejects_Bypass(b) == FALSE

\* withDatabase hands the whole retry loop to the breaker as one operation, so
\* the breaker is asked for admission once, before the loop starts ...
withDatabaseRejects(b) == CircuitBreakerRejects(b)

\* Faulty variant: the breaker wraps each attempt instead of the loop, so that every
\* failed attempt is a data point.
withDatabaseDataPoints_PerAttempt(event) ==
    IF event = "loopSucceeded" THEN <<"success">> ELSE <<"failure">>

\* Faulty variant: the loop's result is returned without telling the breaker
\* that the call succeeded.
withDatabaseDataPoints_SuccessUnreported(event) ==
    IF event = "loopExhausted" THEN <<"failure">> ELSE <<>>

\* ... and receives one data point when the loop ends: nothing for a failed
\* attempt that will be retried.
withDatabaseDataPoints(event) ==
    CASE event = "attemptFailed" -> <<>>
      [] event = "loopSucceeded" -> <<"success">>
      [] event = "loopExhausted" -> <<"failure">>

\* ---------------------------------------------------------------- withRetry
\* Faulty variant: the last attempt is retried as well.
RetryAgain_OffByOne(attempt) == attempt <= maxRetries

\* Faulty variant: the loop waits and tries again after every failure.
RetryAgain_Unbounded(attempt) == TRUE

\* if (attempt < this.maxRetries): wait and try again, else throw.
RetryAgain(attempt) == attempt < maxRetries

\* Faulty variant: the exponent is the attempt index itself.
backoffDelay_OffByOne(attempt) == Min(baseDelay * Pow2(attempt), maxDelay)

\* Math.min(baseDelay * Math.pow(2, attempt - 1), maxDelay)
backoffDelay(attempt) == Min(baseDelay * Pow2(attempt - 1), maxDelay)

\* Faulty variant: the attempt counter is a field of the adapter, shared by
\* the calls in flight.
NextAttempt_Shared(cs, c) ==
    1 + CHOOSE n \in {cs[d].attempt : d \in DOMAIN cs} :
           \A d \in DOMAIN cs : cs[d].attempt <= n

\* for (let attempt = 1; ...; attempt++): the counter is a local of the call
NextAttempt(cs, c) == cs[c].attempt + 1

\* Faulty variant: the jitter scales the backoff instead of being added to it.
delay_Multiplied(attempt, jitter) == backoffDelay(attempt) * jitter

\* const delay = backoffDelay + jitter
delay(attempt, jitter) == backoffDelay(attempt) + jitter

\* Faulty variant: the value of the operation is dropped (await without return).
withRetryReturn_Undefined(value) == [value EXCEPT !.name = "undefined", !.attempt = 0]

\* return await operation()
withRetryReturn(value) == value

\* Faulty variant: the error declared before the loop is thrown, not the caught one.
withRetryThrow_Unknown(error) == [error EXCEPT !.name = "Error", !.attempt = 0]

\* Faulty variant: the error is caught and an empty default is returned.
withRetryThrow_Swallow(error) ==
    [error EXCEPT !.kind = "value", !.name = "default", !.attempt = 0]

\* throw error instanceof Error ? error : new Error(String(error))
withRetryThrow(error) ==
    IF error.name = "NonErrorValue" THEN [error EXCEPT !.name = "Error"] ELSE error

\* The delay computed in the catch block after attempt k has failed, for a
\* jitter value j; prevJitter is the jitter of the delay computed before it.
Schedule(k, j, prev) ==
    [attempt |-> k, backoffDelay |-> backoffDelay(k), jitter |-> j,
     prevJitter |-> prev, delay |-> delay(k, j)]

NoSchedule ==
    [attempt |-> 0, backoffDelay |-> 0, jitter |-> 0, prevJitter |-> 0, delay |-> 0]

\* --------------------------------------------------------------- operations
\* What a call wraps: some operation of the adapter that may succeed or fail
\* on each attempt, or the body of searchMemoriesByEmbedding, given an
\* embedding of the configured dimension or of another one.
SearchOperations == {"searchValid", "searchInvalid"}

\* Faulty variant: the query is sent before the dimension is checked.
searchMemoriesByEmbeddingFinds_BeforeCheck(op) ==
    IF op \in SearchOperations THEN 1 ELSE 0

\* The remote find requests that one invocation of the body issues: the
\* dimension check throws before the query is built.
searchMemoriesByEmbeddingFinds(op) == IF op = "searchValid" THEN 1 ELSE 0

\* if (embedding.length !== getEmbeddingConfig().dimensions) throw new Error(...)
OperationAlwaysThrows(op) == op = "searchInvalid"

OperationErrors(op) ==
    IF op = "searchInvalid" THEN {"InvalidEmbeddingDimension"} ELSE ThrownKinds

\* ------------------------------------------------------------------- state
\* withRetry's local lastError is assigned on every failure and read only by
\* the throw after the loop, which no path reaches; it is not kept.
IdleCall ==
    [pc |-> "idle", attempt |-> 0, remaining |-> 0, invoked |-> 0, delays |-> <<>>,
     result |-> NoResult, reports |-> <<>>, logged |-> 0,
     probe |-> FALSE, invokedWhileOpen |-> FALSE,
     op |-> "operation", finds |-> 0, inserts |-> 0, cbAtStart |-> InitBreaker]

InitObs == [consecFailed |-> 0, trialOk |-> 0, trialAdmitted |-> 0, started |-> 0,
            overlap |-> FALSE, log |-> <<>>, cleaned |-> {}]

Init ==
    /\ cb = InitBreaker
    /\ calls = [c \in Callers |-> IdleCall]
    /\ obs = InitObs
    /\ sched = NoSchedule

Active(c) == calls[c].pc \in {"inflight", "sleeping"}

\* The observer follows the first MaxLog calls made after construction: whether
\* they overlapped, and the order and outcome of their completions.
ObsStarted(o, c) ==
    IF o.started >= MaxLog
    THEN [o EXCEPT !.started = MaxLog + 1, !.overlap = FALSE, !.log = <<>>]
    ELSE [o EXCEPT !.started = @ + 1,
                   !.overlap = @ \/ (\E e \in Callers \ {c} : Active(e))]

\* trialAdmitted counts the calls admitted while the breaker is HALF_OPEN, the
\* probe that made it HALF_OPEN included, until it closes or reopens.
ObsEntered(o, b) ==
    CASE b.state = "OPEN" -> [o EXCEPT !.trialOk = 0, !.trialAdmitted = 1]
      [] b.state = "HALF_OPEN" ->
            [o EXCEPT !.trialAdmitted = Min(@ + 1, halfOpenMaxAttempts + 1)]
      [] OTHER -> o

ObsLogged(o, c, outcome, b) ==
    IF o.started <= MaxLog
    THEN [o EXCEPT !.log = Append(@, [caller |-> c, outcome |-> outcome,
                                      countAfter |-> b.failureCount])]
    ELSE o

\* trialOk counts the calls that succeeded while the breaker was HALF_OPEN,
\* since it last became HALF_OPEN.
ObsSucceeded(o, c, before, b) ==
    ObsLogged([o EXCEPT !.consecFailed = 0,
                        !.trialOk = IF before.state = "HALF_OPEN"
                                    THEN Min(@ + 1, halfOpenMaxAttempts) ELSE @,
                        !.cleaned = @ \ {c},
                        !.trialAdmitted = IF b.state = "HALF_OPEN" THEN @ ELSE 0],
              c, "success", b)

ObsFailed(o, c, b) ==
    ObsLogged([o EXCEPT !.consecFailed = Min(@ + 1, failureThreshold + 1),
                        !.cleaned = @ \ {c},
                        !.trialAdmitted = IF b.state = "HALF_OPEN" THEN @ ELSE 0],
              c, "failure", b)

\* ------------------------------------------------------------------ actions
\* A caller invokes withDatabase while the breaker rejects: the circuit-open
\* error is thrown before the retry loop is entered.
StartRejected(c) ==
    /\ UNCHANGED sched
    /\ calls[c].pc \in {"idle", "done"}
    /\ withDatabaseRejects(cb)
    /\ calls' = [calls EXCEPT ![c] =
                    [IdleCall EXCEPT !.pc = "done", !.result = CircuitOpenError]]
    /\ obs' = ObsStarted(obs, c)
    /\ UNCHANGED cb

\* A caller invokes withDatabase and is admitted: the loop starts with
\* attempt = 1 and calls the operation, which is then awaited.
withDatabaseStart(c, op) ==
    /\ UNCHANGED sched
    /\ calls[c].pc \in {"idle", "done"}
    /\ ~withDatabaseRejects(cb)
    /\ cb' = CircuitBreakerEnter(cb)
    /\ calls' = [calls EXCEPT ![c] =
                    [IdleCall EXCEPT !.pc = "inflight", !.attempt = 1,
                                     !.invoked = 1,
                                     !.op = op,
                                     !.finds = searchMemoriesByEmbeddingFinds(op),
                                     !.probe = (cb.state = "OPEN"),
                                     !.invokedWhileOpen = OpenBeforeTimeout(cb)]]
    /\ obs' = ObsStarted(ObsEntered(obs, cb), c)

StartAdmitted(c) == withDatabaseStart(c, "operation")

\* The awaited operation resolves: withRetry returns its value and the breaker
\* sees its operation succeed.
OpSucceeds(c) ==
    /\ UNCHANGED sched
    /\ calls[c].pc = "inflight"
    /\ ~OperationAlwaysThrows(calls[c].op)
    /\ LET points == withDatabaseDataPoints("loopSucceeded")
           b == CircuitBreakerReportAll(cb, points)
       IN /\ cb' = b
          /\ calls' = [calls EXCEPT ![c] =
                          [@ EXCEPT !.pc = "done",
                                    !.result = withRetryReturn(OpValue(calls[c].attempt)),
                                    !.reports = @ \o points]]
          /\ obs' = ObsSucceeded(obs, c, cb, b)

\* The awaited operation rejects on an attempt that is retried: the delay is
\* computed and the loop is suspended on a timer.
OpFailsRetry(c) ==
    /\ UNCHANGED sched
    /\ calls[c].pc = "inflight"
    /\ RetryAgain(calls[c].attempt)
    /\ \E jitter \in JitterChoices :
         LET points == withDatabaseDataPoints("attemptFailed")
             d == delay(calls[c].attempt, jitter)
         IN /\ cb' = CircuitBreakerReportAll(cb, points)
            /\ calls' = [calls EXCEPT ![c] =
                            [@ EXCEPT !.pc = "sleeping",
                                      !.remaining = d,
                                      !.delays = Append(@, d),
                                      !.reports = @ \o points]]
    /\ UNCHANGED obs

\* The awaited operation rejects on the last attempt: the error is logged with
\* totalAttempts and thrown, and the breaker sees its operation fail.
OpFailsFinal(c) ==
    /\ UNCHANGED sched
    /\ calls[c].pc = "inflight"
    /\ ~RetryAgain(calls[c].attempt)
    /\ \E name \in OperationErrors(calls[c].op) :
         LET points == withDatabaseDataPoints("loopExhausted")
             b == CircuitBreakerReportAll(cb, points)
             error == OpThrown(calls[c].attempt, name)
         IN /\ cb' = b
            /\ calls' = [calls EXCEPT ![c] =
                            [@ EXCEPT !.pc = "done",
                                      !.logged = calls[c].attempt,
                                      !.result = withRetryThrow(error),
                                      !.reports = @ \o points]]
            /\ obs' = ObsFailed(obs, c, b)

\* The backoff timer fires: the loop goes to the next attempt and calls the
\* operation again.
TimerFires(c) ==
    /\ UNCHANGED sched
    /\ calls[c].pc = "sleeping"
    /\ calls[c].remaining = 0
    /\ calls' = [calls EXCEPT ![c] =
                    [@ EXCEPT !.pc = "inflight", !.attempt = NextAttempt(calls, c),
                              !.invoked = @ + 1,
                              !.finds = @ + searchMemoriesByEmbeddingFinds(calls[c].op),
                              !.invokedWhileOpen = OpenBeforeTimeout(cb)]]
    /\ UNCHANGED <<cb, obs>>

\* Time passes.  The program reads the clock in two places only: a timer fires
\* once its delay has elapsed, and the breaker compares the time since it
\* opened with resetTimeout.  A short step is taken while a timer is pending, a
\* long step while an OPEN breaker waits for its timeout.
TimerPending == \E c \in Callers : calls[c].pc = "sleeping" /\ calls[c].remaining > 0

Elapse(t) ==
    /\ UNCHANGED sched
    /\ cb' = IF cb.state = "OPEN"
             THEN [cb EXCEPT !.openFor = Min(@ + t, resetTimeout)]
             ELSE cb
    /\ calls' = [c \in Callers |->
                    IF calls[c].pc = "sleeping"
                    THEN [calls[c] EXCEPT !.remaining = Max(@ - t, 0)]
                    ELSE calls[c]]
    /\ UNCHANGED obs

TickShort ==
    /\ TimerPending
    /\ Elapse(ShortStep)

TickLong ==
    /\ OpenBeforeTimeout(cb)
    /\ Elapse(LongStep)

Next ==
    \/ \E c \in Callers : StartRejected(c)
    \/ \E c \in Callers : StartAdmitted(c)
    \/ \E c \in Callers : OpSucceeds(c)
    \/ \E c \in Callers : OpFailsRetry(c)
    \/ \E c \in Callers : OpFailsFinal(c)
    \/ \E c \in Callers : TimerFires(c)
    \/ TickShort
    \/ TickLong

Spec == Init /\ [][Next]_vars

\* ------------------------------------------------------------------ fairness
\* The environment the retry loop relies on: an attempt that has been started
\* returns or throws, time passes while a timer is pending, and a timer whose
\* delay has elapsed runs its callback.
AttemptEnds(c) == OpSucceeds(c) \/ OpFailsRetry(c) \/ OpFailsFinal(c)

Fairness ==
    /\ \A c \in Callers : WF_vars(AttemptEnds(c))
    /\ \A c \in Callers : WF_vars(TimerFires(c))
    /\ WF_vars(TickShort)

SpecLive == Init /\ [][Next]_vars /\ Fairness

\* ------------------------------------------------------------------- search
\* A caller invokes searchMemoriesByEmbedding, which passes its body to
\* withDatabase; the caller chooses the embedding.  Here every call is a search.
searchMemoriesByEmbedding(c) ==
    \E op \in SearchOperations : withDatabaseStart(c, op)

NextSearch ==
    \/ \E c \in Callers : StartRejected(c)
    \/ \E c \in Callers : searchMemoriesByEmbedding(c)
    \/ \E c \in Callers : OpSucceeds(c)
    \/ \E c \in Callers : OpFailsRetry(c)
    \/ \E c \in Callers : OpFailsFinal(c)
    \/ \E c \in Callers : TimerFires(c)
    \/ TickShort
    \/ TickLong

SpecSearch == Init /\ [][NextSearch]_vars

\* ------------------------------------------------------------ createMemory
\* createMemory with an embedding: its body, run by withDatabase, awaits
\* searchMemoriesByEmbedding, which runs its own body through withDatabase, and
\* then awaits insertOne.  Call site Outer holds the createMemory call and call
\* site Inner the search it is waiting for; Inner is idle while no search is
\* pending.  The createMemory call counts the finds and the data points of its
\* searches with its own, and remembers the breaker it started with.
Outer == 1
Inner == 2

SearchPending ==
    /\ calls[Outer].pc = "inflight"
    /\ calls[Outer].op = "createMemory"
    /\ calls[Inner].pc = "done"

InsertPending ==
    /\ calls[Outer].pc = "inflight"
    /\ calls[Outer].op = "createMemory"
    /\ calls[Inner].pc = "idle"

\* The search call made by the body, under breaker b: turned away, or admitted
\* with its first find sent.
NestedSearch(b) ==
    IF withDatabaseRejects(b)
    THEN [IdleCall EXCEPT !.pc = "done", !.result = CircuitOpenError]
    ELSE [IdleCall EXCEPT !.pc = "inflight", !.attempt = 1, !.invoked = 1,
                          !.op = "searchValid",
                          !.finds = searchMemoriesByEmbeddingFinds("searchValid"),
                          !.probe = (b.state = "OPEN"),
                          !.invokedWhileOpen = OpenBeforeTimeout(b)]

NestedBreaker(b) == IF withDatabaseRejects(b) THEN b ELSE CircuitBreakerEnter(b)

NestedObs(o, b) ==
    ObsStarted(IF withDatabaseRejects(b) THEN o ELSE ObsEntered(o, b), Inner)

\* What the createMemory call takes over from the search that has ended.
Absorbed(outer, inner) ==
    [outer EXCEPT !.finds = @ + inner.finds, !.reports = @ \o inner.reports]

\* createMemory is invoked and admitted: attempt 1 of its body starts the
\* search.
createMemory ==
    /\ UNCHANGED sched
    /\ calls[Outer].pc \in {"idle", "done"}
    /\ calls[Inner].pc = "idle"
    /\ ~withDatabaseRejects(cb)
    /\ LET b == CircuitBreakerEnter(cb)
       IN /\ cb' = NestedBreaker(b)
          /\ calls' = [calls EXCEPT
                          ![Outer] = [IdleCall EXCEPT !.pc = "inflight", !.attempt = 1,
                                                      !.invoked = 1,
                                                      !.op = "createMemory",
                                                      !.cbAtStart = cb,
                                                      !.probe = (cb.state = "OPEN"),
                                                      !.invokedWhileOpen =
                                                          OpenBeforeTimeout(cb)],
                          ![Inner] = NestedSearch(b)]
          /\ obs' = NestedObs(ObsStarted(ObsEntered(obs, cb), Outer), b)

\* The search returned: the body goes on to insertOne.
searchReturned ==
    /\ UNCHANGED sched
    /\ SearchPending
    /\ calls[Inner].result.kind = "value"
    /\ calls' = [calls EXCEPT
                    ![Outer] = [Absorbed(@, calls[Inner]) EXCEPT !.inserts = @ + 1],
                    ![Inner] = IdleCall]
    /\ UNCHANGED <<cb, obs>>

\* The search threw, so the body throws, on an attempt that is retried.
searchThrewRetry ==
    /\ UNCHANGED sched
    /\ SearchPending
    /\ calls[Inner].result.kind = "error"
    /\ RetryAgain(calls[Outer].attempt)
    /\ \E jitter \in JitterChoices :
         LET points == withDatabaseDataPoints("attemptFailed")
             d == delay(calls[Outer].attempt, jitter)
         IN /\ cb' = CircuitBreakerReportAll(cb, points)
            /\ calls' = [calls EXCEPT
                            ![Outer] = [Absorbed(@, calls[Inner]) EXCEPT
                                           !.pc = "sleeping",
                                           !.remaining = d,
                                           !.delays = Append(@, d),
                                           !.reports = @ \o points],
                            ![Inner] = IdleCall]
    /\ UNCHANGED obs

\* The search threw on the last attempt of createMemory: its error is thrown
\* on, and the breaker sees createMemory fail.
searchThrewFinal ==
    /\ UNCHANGED sched
    /\ SearchPending
    /\ calls[Inner].result.kind = "error"
    /\ ~RetryAgain(calls[Outer].attempt)
    /\ LET points == withDatabaseDataPoints("loopExhausted")
           b == CircuitBreakerReportAll(cb, points)
       IN /\ cb' = b
          /\ calls' = [calls EXCEPT
                          ![Outer] = [Absorbed(@, calls[Inner]) EXCEPT
                                         !.pc = "done",
                                         !.logged = calls[Outer].attempt,
                                         !.result = withRetryThrow(calls[Inner].result),
                                         !.reports = @ \o points],
                          ![Inner] = IdleCall]
          /\ obs' = ObsFailed(obs, Outer, b)

\* The backoff timer of createMemory fires: the next attempt of its body
\* starts a new search, which asks the breaker again.
createMemoryRetry ==
    /\ UNCHANGED sched
    /\ calls[Outer].pc = "sleeping"
    /\ calls[Outer].op = "createMemory"
    /\ calls[Outer].remaining = 0
    /\ cb' = NestedBreaker(cb)
    /\ calls' = [calls EXCEPT
                    ![Outer] = [@ EXCEPT !.pc = "inflight",
                                         !.attempt = NextAttempt(calls, Outer),
                                         !.invoked = @ + 1,
                                         !.invokedWhileOpen = OpenBeforeTimeout(cb)],
                    ![Inner] = NestedSearch(cb)]
    /\ obs' = NestedObs(obs, cb)

\* insertOne returns or throws: the attempt of createMemory ends like the
\* attempt of any operation.
insertReturned == InsertPending /\ OpSucceeds(Outer)
insertThrewRetry == InsertPending /\ OpFailsRetry(Outer)
insertThrewFinal == InsertPending /\ OpFailsFinal(Outer)

NextNested ==
    \/ StartRejected(Outer)
    \/ createMemory
    \/ OpSucceeds(Inner)
    \/ OpFailsRetry(Inner)
    \/ OpFailsFinal(Inner)
    \/ TimerFires(Inner)
    \/ searchReturned
    \/ searchThrewRetry
    \/ searchThrewFinal
    \/ insertReturned
    \/ insertThrewRetry
    \/ insertThrewFinal
    \/ createMemoryRetry
    \/ TickShort
    \/ TickLong

SpecNested == Init /\ [][NextNested]_vars

\* ----------------------------------------------------------------- shutdown
\* cleanup() writes a log line and returns: it touches neither the breaker nor
\* a call nor a timer.  obs.cleaned remembers the calls that were suspended in
\* a backoff delay when cleanup returned, until they end.
ObsCleaned(o, cs) == [o EXCEPT !.cleaned = {c \in Callers : cs[c].pc = "sleeping"}]

cleanup ==
    /\ obs' = ObsCleaned(obs, calls)
    /\ UNCHANGED <<cb, calls, sched>>

NextShutdown ==
    \/ Next
    \/ cleanup

SpecShutdown == Init /\ [][NextShutdown]_vars

\* ------------------------------------------------------ the delay schedule
\* The delay computation on its own, for attempt indices beyond maxRetries:
\* Math.random() * jitterMax is sampled at NumJitter evenly spaced values of
\* [0, jitterMax) and at its largest whole value.
MaxAttemptIndex == 6
NumJitter == 10

JitterSamples ==
    {(i * jitterMax) \div NumJitter : i \in 0..(NumJitter - 1)} \cup {jitterMax - 1}

InitDelay ==
    /\ cb = InitBreaker
    /\ calls = [c \in Callers |-> IdleCall]
    /\ obs = InitObs
    /\ \E j \in JitterSamples : sched = Schedule(1, j, j)

\* The next attempt fails as well and its delay is computed with a fresh jitter.
ComputeDelay ==
    /\ sched.attempt < MaxAttemptIndex
    /\ \E j \in JitterSamples : sched' = Schedule(sched.attempt + 1, j, sched.jitter)
    /\ UNCHANGED <<cb, calls, obs>>

NextDelay == ComputeDelay

SpecDelay == InitDelay /\ [][NextDelay]_vars

\* ------------------------------------------------------------ step predicates
\* Caller c invokes withDatabase in this step.
StartStep(c) == calls[c].pc \in {"idle", "done"} /\ calls'[c] # calls[c]

\* Caller c's call returns or throws after running the retry loop.
CompleteStep(c) == calls[c].pc = "inflight" /\ calls'[c].pc = "done"
SuccessStep(c) == CompleteStep(c) /\ calls'[c].result.kind = "value"
FailureStep(c) == CompleteStep(c) /\ calls'[c].result.kind = "error"

\* The call of c was turned away by the breaker.
Rejected(call) ==
    /\ call.pc = "done"
    /\ call.result = CircuitOpenError
    /\ call.attempt = 0
    /\ call.invoked = 0
    /\ call.delays = <<>>

\* ---------------------------------------------------------------------- C1
\* C1: a CLOSED breaker stays CLOSED while fewer than failureThreshold
\* consecutive calls have failed, goes to OPEN in the step in which the
\* failureThreshold-th consecutive call fails and in no other step, and a call
\* made next, before resetTimeout has elapsed, is turned away without the
\* operation being invoked.
C1_OpensAtThreshold ==
    [][ /\ (cb.state = "CLOSED" /\ obs'.consecFailed < failureThreshold)
             => cb'.state = "CLOSED"
        /\ (cb.state = "CLOSED" /\ cb'.state = "OPEN")
             => (obs.consecFailed = failureThreshold - 1
                 /\ obs'.consecFailed = failureThreshold)
        /\ (cb.state = "CLOSED" /\ obs.consecFailed = failureThreshold - 1
               /\ obs'.consecFailed = failureThreshold)
             => cb'.state = "OPEN"
        /\ \A c \in Callers :
             (StartStep(c) /\ obs.consecFailed = failureThreshold
                /\ OpenBeforeTimeout(cb))
             => (Rejected(calls'[c]) /\ cb'.state = "OPEN")
      ]_vars

\* The breaker has opened on the failureThreshold-th consecutive failure and
\* the next call has been turned away.
C1_Witness ==
    /\ cb.state = "OPEN"
    /\ cb.failureCount = failureThreshold
    /\ obs.consecFailed = failureThreshold
    /\ \E c \in Callers : Rejected(calls[c])

\* ---------------------------------------------------------------------- C2
\* C2: while the breaker is OPEN and resetTimeout has not elapsed, a call to
\* withDatabase throws the circuit-open error without entering the retry loop
\* or invoking the operation, and the breaker stays OPEN: it leaves OPEN only
\* once resetTimeout has elapsed.
C2_OpenFailsFast ==
    [][ /\ \A c \in Callers :
             (StartStep(c) /\ OpenBeforeTimeout(cb))
             => (Rejected(calls'[c]) /\ cb' = cb)
        /\ (cb.state = "OPEN" /\ cb'.state # "OPEN") => cb.openFor >= resetTimeout
      ]_vars

\* A call has been turned away by a breaker that has been OPEN for some time,
\* but for less than resetTimeout.
C2_Witness ==
    /\ OpenBeforeTimeout(cb)
    /\ cb.openFor > 0
    /\ \E c \in Callers : Rejected(calls[c])

\* ---------------------------------------------------------------------- C3
\* C3 as stated: a call admitted by an OPEN breaker at or after resetTimeout
\* invokes the operation exactly once.
C3_Original == \A c \in Callers : calls[c].probe => calls[c].invoked = 1

\* C3 (amended): a call made while the breaker is OPEN at or after resetTimeout
\* moves the breaker to HALF_OPEN and enters the retry loop once, invoking the
\* operation at once for attempt 1; over the whole call the operation is
\* invoked between 1 and maxRetries times, once per attempt: exactly once when
\* the first attempt succeeds, maxRetries times when the call fails.
C3_ProbeRunsRetryLoop ==
    [][ \A c \in Callers :
          /\ (StartStep(c) /\ cb.state = "OPEN" /\ cb.openFor >= resetTimeout)
               => /\ cb'.state = "HALF_OPEN"
                  /\ calls'[c].probe
                  /\ calls'[c].pc = "inflight"
                  /\ calls'[c].attempt = 1
                  /\ calls'[c].invoked = 1
          /\ calls'[c].probe
               => /\ calls'[c].invoked \in 1..maxRetries
                  /\ calls'[c].invoked = calls'[c].attempt
                  /\ (calls'[c].pc = "done" /\ calls'[c].result.kind = "value")
                       => calls'[c].invoked = calls'[c].result.attempt
                  /\ (calls'[c].pc = "done" /\ calls'[c].result.kind = "error")
                       => calls'[c].invoked = maxRetries
      ]_vars

\* A call admitted after the timeout has failed after maxRetries invocations.
C3_Witness ==
    \E c \in Callers :
       /\ calls[c].probe
       /\ calls[c].pc = "done"
       /\ calls[c].result.kind = "error"
       /\ calls[c].invoked = maxRetries

\* ---------------------------------------------------------------------- C4
\* C4: while the breaker is HALF_OPEN, a call that succeeds leaves it HALF_OPEN
\* unless it is the third (halfOpenMaxAttempts-th) success since the breaker
\* became HALF_OPEN, which moves it to CLOSED with failure count 0; a call that
\* fails moves it to OPEN with the open timer at zero; nothing else moves it.
C4_HalfOpenTrials ==
    [][ /\ (cb.state = "HALF_OPEN" /\ \E c \in Callers : SuccessStep(c))
             => IF obs'.trialOk = halfOpenMaxAttempts
                THEN cb'.state = "CLOSED" /\ cb'.failureCount = 0
                ELSE cb'.state = "HALF_OPEN" /\ obs'.trialOk = obs.trialOk + 1
        /\ (cb.state = "HALF_OPEN" /\ \E c \in Callers : FailureStep(c))
             => (cb'.state = "OPEN" /\ cb'.openFor = 0 /\ OpenBeforeTimeout(cb'))
        /\ (cb.state = "HALF_OPEN" /\ cb'.state # "HALF_OPEN")
             => \E c \in Callers : CompleteStep(c)
      ]_vars

\* The breaker has been closed by three successful trial calls, after an
\* earlier trial call (the one that found the breaker OPEN) had failed.
C4_Witness ==
    /\ cb.state = "CLOSED"
    /\ cb.failureCount = 0
    /\ obs.trialOk = halfOpenMaxAttempts
    /\ \E c \in Callers :
          calls[c].probe /\ calls[c].pc = "done" /\ calls[c].result.kind = "error"

\* ---------------------------------------------------------------------- C5
\* C5: a call whose operation fails on attempts 1..k-1 and succeeds on attempt
\* k has invoked the operation k times, returns the value of attempt k and has
\* waited k-1 times, first in [1000,2000) and then in [2000,3000); once it has
\* returned, nothing of it changes until the caller makes its next call.
C5_SuccessAtAttemptK ==
    [][ \A c \in Callers :
          /\ (calls'[c].pc = "done" /\ calls'[c].result.kind = "value")
               => LET k == calls'[c].result.attempt
                      ds == calls'[c].delays
                  IN /\ k \in 1..maxRetries
                     /\ calls'[c].invoked = k
                     /\ calls'[c].result = OpValue(k)
                     /\ Len(ds) = k - 1
                     /\ k >= 2 => (ds[1] >= 1000 /\ ds[1] < 2000)
                     /\ k >= 3 => (ds[2] >= 2000 /\ ds[2] < 3000)
          /\ (calls[c].pc = "done" /\ ~StartStep(c)) => calls'[c] = calls[c]
      ]_vars

\* A call has succeeded on its third attempt after the longest first delay and
\* the shortest second delay.
C5_Witness ==
    \E c \in Callers :
       /\ calls[c].pc = "done"
       /\ calls[c].result = OpValue(maxRetries)
       /\ calls[c].invoked = maxRetries
       /\ calls[c].delays = <<1999, 2000>>

\* ---------------------------------------------------------------------- C6
\* The call of c has thrown after running its retry loop.
Exhausted(call) ==
    call.pc = "done" /\ call.result.kind = "error" /\ call.result # CircuitOpenError

\* C6 as stated: the error thrown after maxRetries failed attempts is a
\* RetryExhaustedError carrying the attempt count maxRetries.
C6_Original ==
    \A c \in Callers :
       Exhausted(calls[c])
       => /\ calls[c].result.name = "RetryExhaustedError"
          /\ calls[c].result.totalAttempts = maxRetries
          /\ calls[c].result.attempt = maxRetries
          /\ calls[c].invoked = maxRetries
          /\ Len(calls[c].delays) = maxRetries - 1

\* C6 (amended): a call whose operation fails on all maxRetries attempts throws
\* the error raised by attempt maxRetries itself (made an Error if it was some
\* other value), with no wrapper and no attempt count attached; the attempt
\* count maxRetries is only logged.  The operation has been invoked maxRetries
\* times and no delay follows the last failure.
C6_LastErrorRethrown ==
    \A c \in Callers :
       Exhausted(calls[c])
       => /\ calls[c].result.name \in {"OperationError", "Error"}
          /\ calls[c].result.totalAttempts = 0
          /\ calls[c].result.attempt = maxRetries
          /\ calls[c].logged = maxRetries
          /\ calls[c].invoked = maxRetries
          /\ calls[c].attempt = maxRetries
          /\ Len(calls[c].delays) = maxRetries - 1
          /\ calls[c].remaining = 0

\* A call has thrown the Error raised by its third attempt.
C6_Witness ==
    \E c \in Callers :
       /\ Exhausted(calls[c])
       /\ calls[c].result = OpThrown(maxRetries, "OperationError")
       /\ calls[c].invoked = maxRetries

\* ---------------------------------------------------------------------- C7
\* C7: on a breaker that is CLOSED with failure count 0, starting a call leaves
\* the breaker as it is and invokes the operation once, and the return of a
\* call whose first attempt succeeds leaves the breaker as it is, with the
\* operation invoked once, no delay, and the value of that attempt returned.
C7_SuccessIsIdempotent ==
    [][ \A c \in Callers :
          /\ (StartStep(c) /\ cb = InitBreaker)
               => (cb' = cb /\ calls'[c].pc = "inflight" /\ calls'[c].invoked = 1)
          /\ (CompleteStep(c) /\ calls[c].attempt = 1 /\ calls'[c].reports = <<"success">>
                 /\ cb = InitBreaker)
               => /\ cb' = cb
                  /\ calls'[c].invoked = 1
                  /\ calls'[c].delays = <<>>
                  /\ calls'[c].result = OpValue(1)
      ]_vars

\* More than MaxLog calls have been made, the last of every caller succeeded at
\* once, and the breaker is as constructed.
C7_Witness ==
    /\ cb = InitBreaker
    /\ obs.started > MaxLog
    /\ \A c \in Callers :
          /\ calls[c].pc = "done"
          /\ calls[c].result = OpValue(1)
          /\ calls[c].invoked = 1

\* ---------------------------------------------------------------------- C8
\* C8: when the first two calls made after construction complete, the one that
\* completes first with a failure and the other after it with a success, the
\* failure has taken the count to 1 and the success back to 0, and the breaker
\* is CLOSED with failure count 0, however the steps of the two interleaved.
C8_NoLostUpdate ==
    (/\ obs.started = 2
     /\ Len(obs.log) = 2
     /\ obs.log[1].outcome = "failure"
     /\ obs.log[2].outcome = "success")
    => /\ obs.log[1].countAfter = 1
       /\ obs.log[2].countAfter = 0
       /\ cb.state = "CLOSED"
       /\ cb.failureCount = 0

\* Two overlapping calls of different callers: the first has failed, then the
\* second has succeeded.
C8_Witness ==
    /\ obs.started = 2
    /\ obs.overlap
    /\ Len(obs.log) = 2
    /\ obs.log[1].outcome = "failure"
    /\ obs.log[2].outcome = "success"
    /\ obs.log[1].caller # obs.log[2].caller
    /\ cb = InitBreaker

\* ---------------------------------------------------------------------- C9
\* C9: a call that the breaker admitted reports nothing to the breaker until it
\* returns or throws, and then exactly one data point: success when an attempt
\* succeeded, failure when all maxRetries attempts failed.  A failed attempt
\* that is retried leaves the breaker as it is, and the failure count rises
\* only by 1 and only in the step in which a call throws.
C9_OneDataPointPerCall ==
    [][ /\ \A c \in Callers :
             /\ Active(c)' => calls'[c].reports = <<>>
             /\ (calls[c].pc = "inflight" /\ calls'[c].pc = "sleeping") => cb' = cb
             /\ CompleteStep(c)
                  => /\ Len(calls'[c].reports) = 1
                     /\ cb' = CircuitBreakerReport(cb, calls'[c].reports[1])
                     /\ calls'[c].reports[1] = "success" <=> calls'[c].result.kind = "value"
                     /\ calls'[c].reports[1] = "failure"
                          => (calls'[c].invoked = maxRetries
                              /\ calls'[c].result.kind = "error")
        /\ cb'.failureCount <= cb.failureCount + 1
        /\ cb'.failureCount > cb.failureCount
             => \E c \in Callers : FailureStep(c) /\ calls'[c].invoked = maxRetries
      ]_vars

\* A call has succeeded on its last attempt, after two failed attempts, and the
\* failure count is 0.
C9_Witness ==
    /\ cb = InitBreaker
    /\ \E c \in Callers :
          /\ calls[c].pc = "done"
          /\ calls[c].result = OpValue(maxRetries)
          /\ calls[c].reports = <<"success">>

\* --------------------------------------------------------------------- C10
\* C10 as stated: the operation is never invoked while the breaker is OPEN and
\* resetTimeout has not elapsed.
C10_Original == \A c \in Callers : ~calls[c].invokedWhileOpen

\* C10 (amended): while the breaker is OPEN and resetTimeout has not elapsed,
\* no call is admitted, so the operation is never invoked for a first attempt;
\* a call admitted earlier and suspended in backoff still makes its remaining
\* attempts after another call's failure has opened the breaker.
C10_AdmissionGated ==
    \A c \in Callers : calls[c].invokedWhileOpen => calls[c].attempt >= 2

\* A call admitted earlier is making a retry while the breaker is OPEN and
\* resetTimeout has not elapsed.
C10_Witness ==
    /\ OpenBeforeTimeout(cb)
    /\ \E c \in Callers :
          /\ calls[c].pc = "inflight"
          /\ calls[c].invokedWhileOpen
          /\ calls[c].attempt >= 2

\* --------------------------------------------------------------------- C11
\* C11: a call that has ended has either returned the value of its last
\* attempt, which succeeded, or thrown: the circuit-open error without having
\* invoked the operation, or the error of its maxRetries-th attempt.  It never
\* returns a value that no attempt produced.
C11_NeverSwallows ==
    \A c \in Callers :
       calls[c].pc = "done"
       => \/ /\ calls[c].result = OpValue(calls[c].attempt)
             /\ calls[c].attempt >= 1
             /\ calls[c].reports = <<"success">>
          \/ /\ calls[c].result = CircuitOpenError
             /\ calls[c].invoked = 0
             /\ calls[c].reports = <<>>
          \/ /\ calls[c].result.kind = "error"
             /\ calls[c].result.name \in {"OperationError", "Error"}
             /\ calls[c].result.attempt = maxRetries
             /\ calls[c].invoked = maxRetries
             /\ calls[c].reports = <<"failure">>

\* One call has thrown the error of its last attempt and another has been
\* turned away with the circuit-open error.
C11_Witness ==
    \E c, d \in Callers :
       /\ Exhausted(calls[c])
       /\ calls[c].result.name = "Error"
       /\ Rejected(calls[d])

\* --------------------------------------------------------------------- C12
\* C12: in the step in which a call returns a value the breaker's failure
\* count becomes zero, whatever it was before, and while the breaker is CLOSED
\* its count is the number of calls that have failed since the last call that
\* succeeded: failures separated by a success do not add up.
C12_SuccessResetsCount ==
    [][ /\ \A c \in Callers : SuccessStep(c) => cb'.failureCount = 0
        /\ cb'.state = "CLOSED" => cb'.failureCount = obs'.consecFailed
      ]_vars

\* A call failed, leaving the count at 1, and the next call to end succeeded,
\* leaving it at 0.
C12_Witness ==
    /\ Len(obs.log) = 2
    /\ obs.log[1].outcome = "failure" /\ obs.log[1].countAfter = 1
    /\ obs.log[2].outcome = "success" /\ obs.log[2].countAfter = 0
    /\ cb.state = "CLOSED" /\ cb.failureCount = 0

\* --------------------------------------------------------------------- C13
\* C13: while the breaker is HALF_OPEN, at most halfOpenMaxAttempts calls
\* have been admitted to run the operation since it became HALF_OPEN.
C13_TrialsLimited ==
    cb.state = "HALF_OPEN" => obs.trialAdmitted <= halfOpenMaxAttempts

\* --------------------------------------------------------------------- C14
\* C14: the delay computed after attempt k is min(baseDelay * 2^(k-1), maxDelay)
\* plus the jitter drawn for it: the backoff part is baseDelay for k = 1,
\* doubles from one attempt to the next until it reaches maxDelay and never
\* exceeds it; the jitter lies in [0, jitterMax), is added to the backoff, and
\* the delay lies in [min(baseDelay * 2^(k-1), maxDelay), maxDelay + jitterMax).
C14_DelayFormula ==
    [][ LET k == sched'.attempt
            bound == IF baseDelay * (2 ^ (k - 1)) < maxDelay
                     THEN baseDelay * (2 ^ (k - 1)) ELSE maxDelay
        IN /\ k = sched.attempt + 1
           /\ sched'.backoffDelay = bound
           /\ sched'.backoffDelay <= maxDelay
           /\ sched.attempt = 1 => sched.backoffDelay = baseDelay
           /\ sched.delay - sched.backoffDelay = sched.jitter
           /\ sched.jitter >= 0 /\ sched.jitter < jitterMax
           /\ sched'.backoffDelay = Min(2 * sched.backoffDelay, maxDelay)
           /\ sched'.jitter >= 0 /\ sched'.jitter < jitterMax
           /\ sched'.delay - sched'.backoffDelay = sched'.jitter
           /\ sched'.delay >= bound
           /\ sched'.delay < maxDelay + jitterMax
      ]_vars

\* The delay after an attempt beyond the cap, with the largest jitter, following
\* a delay computed with jitter 0.
C14_Witness ==
    /\ sched.attempt = MaxAttemptIndex
    /\ sched.backoffDelay = maxDelay
    /\ sched.jitter = jitterMax - 1
    /\ sched.prevJitter = 0
    /\ sched.delay = maxDelay + jitterMax - 1

\* --------------------------------------------------------------------- C15
\* C15: the attempt counter belongs to the call.  A call that is admitted
\* starts at attempt 1 with no delay behind it, whatever the caller's previous
\* call or the other calls have used; its counter moves only when its own
\* timer fires, by one, and no other call is touched by that step; it never
\* exceeds maxRetries, and a call throws the operation's error only after
\* maxRetries attempts of its own.
C15_PerCallCounter ==
    [][ \A c \in Callers :
          /\ calls'[c].attempt <= maxRetries
          /\ calls'[c].invoked = calls'[c].attempt
          /\ FailureStep(c) => calls'[c].invoked = maxRetries
          /\ (StartStep(c) /\ calls'[c].pc = "inflight")
                => (calls'[c].attempt = 1 /\ calls'[c].delays = <<>>)
          /\ (calls'[c].attempt # calls[c].attempt /\ ~StartStep(c))
                => /\ calls[c].pc = "sleeping"
                   /\ calls'[c].attempt = calls[c].attempt + 1
                   /\ \A d \in Callers \ {c} : calls'[d] = calls[d]
      ]_vars

\* Two calls that were in flight together have each used maxRetries attempts
\* and maxRetries - 1 delays before throwing.
C15_Witness ==
    /\ obs.overlap
    /\ obs.started = 2
    /\ \A c \in Callers :
          /\ Exhausted(calls[c])
          /\ calls[c].invoked = maxRetries
          /\ Len(calls[c].delays) = maxRetries - 1

\* --------------------------------------------------------------------- C16
\* C16: a call that was suspended in a backoff delay when cleanup returned
\* does not resume: its timer does not fire and its operation is not invoked
\* again.
C16_CleanupCancels ==
    [][ \A c \in Callers :
          (c \in obs.cleaned /\ calls[c].pc = "sleeping")
             => (calls'[c].pc # "inflight" /\ calls'[c].invoked = calls[c].invoked)
      ]_vars

\* --------------------------------------------------------------------- C17
\* C17: the retry loop does not look at the error.  A call throws the
\* operation's error only from attempt maxRetries, every earlier failure being
\* followed by a backoff delay; a search with an embedding of the wrong
\* dimension issues no remote find, and when it has ended it has run its body
\* maxRetries times with maxRetries - 1 delays, thrown the dimension error and
\* reported one failure to the breaker.
C17_BlindRetry ==
    [][ \A c \in Callers :
          /\ (calls[c].pc = "inflight" /\ calls'[c].pc # "inflight"
                 /\ calls'[c].result.kind # "value")
                => IF calls[c].attempt < maxRetries
                   THEN calls'[c].pc = "sleeping"
                        /\ Len(calls'[c].delays) = calls[c].attempt
                   ELSE FailureStep(c)
          /\ calls'[c].op = "searchInvalid"
                => /\ calls'[c].finds = 0
                   /\ calls'[c].pc = "done"
                        => /\ calls'[c].invoked = maxRetries
                           /\ Len(calls'[c].delays) = maxRetries - 1
                           /\ calls'[c].result.name = "InvalidEmbeddingDimension"
                           /\ calls'[c].result.attempt = maxRetries
                           /\ calls'[c].reports = <<"failure">>
      ]_vars

\* A search with an embedding of the wrong dimension has ended, and a search
\* with a valid embedding has sent its query on every attempt.
C17_Witness ==
    \E c, d \in Callers :
       /\ calls[c].op = "searchInvalid" /\ calls[c].pc = "done"
       /\ calls[c].invoked = maxRetries /\ calls[c].finds = 0
       /\ calls[d].op = "searchValid" /\ calls[d].pc = "done"
       /\ calls[d].finds = maxRetries

\* --------------------------------------------------------------------- C18
\* C18: a call that is running returns or throws eventually, given that its
\* attempts end and its timers fire; on the way it makes at most maxRetries
\* attempts and is suspended at most maxRetries - 1 times, and once it has
\* ended no timer of it is pending.
C18_CallCompletes ==
    /\ [](\A c \in Callers :
            /\ calls[c].invoked <= maxRetries
            /\ Len(calls[c].delays) <= maxRetries - 1
            /\ calls[c].pc = "done" => calls[c].remaining = 0)
    /\ \A c \in Callers : Active(c) ~> (calls[c].pc = "done")

\* A call has ended after using up maxRetries attempts and maxRetries - 1
\* suspensions, while another call is still suspended.
C18_Witness ==
    \E c, d \in Callers :
       /\ calls[c].pc = "done"
       /\ calls[c].invoked = maxRetries
       /\ Len(calls[c].delays) = maxRetries - 1
       /\ calls[c].remaining = 0
       /\ calls[d].pc = "sleeping" /\ calls[d].remaining > 0

\* --------------------------------------------------------------------- C19
\* C19: a createMemory call that started with the breaker CLOSED at count 0
\* and none of whose searches succeeded has, when it ends, sent
\* maxRetries * maxRetries finds and no insertOne, and the breaker has been
\* told of maxRetries + 1 failures, one per search and one for createMemory,
\* which leaves it CLOSED at that count.  A search that the breaker turns away
\* sends no find, and the attempt of createMemory that made it fails like any
\* other: it is followed by a backoff delay unless it is the last, and the last
\* throws the circuit-open error on.
C19_NestedRetry ==
    [][ LET o == calls'[Outer]
        IN /\ ( /\ o.op = "createMemory" /\ o.pc = "done"
                /\ o.cbAtStart.state = "CLOSED" /\ o.cbAtStart.failureCount = 0
                /\ \A i \in 1..Len(o.reports) : o.reports[i] = "failure" )
              => /\ o.finds = maxRetries * maxRetries
                 /\ o.inserts = 0
                 /\ Len(o.reports) = maxRetries + 1
                 /\ cb'.state = "CLOSED"
                 /\ cb'.failureCount = maxRetries + 1
                 /\ Exhausted(o)
           /\ ( /\ SearchPending
                /\ calls[Inner].result = CircuitOpenError
                /\ calls'[Outer] # calls[Outer] )
              => /\ calls[Inner].finds = 0
                 /\ o.finds = calls[Outer].finds
                 /\ IF calls[Outer].attempt < maxRetries
                    THEN /\ o.pc = "sleeping"
                         /\ Len(o.delays) = calls[Outer].attempt
                         /\ o.remaining >= backoffDelay(calls[Outer].attempt)
                    ELSE /\ o.pc = "done"
                         /\ o.result = CircuitOpenError
                         /\ o.invoked = maxRetries
      ]_vars

\* A createMemory call that started at count 0 has ended after 9 failed finds.
C19_Witness ==
    /\ calls[Outer].op = "createMemory"
    /\ calls[Outer].pc = "done"
    /\ calls[Outer].cbAtStart.failureCount = 0
    /\ calls[Outer].finds = maxRetries * maxRetries
    /\ calls[Outer].inserts = 0
    /\ calls[Outer].reports = [i \in 1..(maxRetries + 1) |-> "failure"]
    /\ cb.state = "CLOSED"
    /\ cb.failureCount = maxRetries + 1

====
